---- MODULE Spec2Model ----
\* Confidential three-option poll (quiknode-labs/arcium-election).
\*
\* Two on-chain programs share one design: `election` (handlers/*.rs, results
\* of Vote and Reveal verified with verify_output) and the older `voting`
\* (lib.rs, results matched on ComputationOutputs::Success).  Both queue
\* computations to an MPC cluster that runs the circuits of
\* encrypted-ixs/src/lib.rs and calls back with the result.
\*
\* A transaction (one handler run) is atomic: it either commits all its
\* writes or none.  The cluster reads the poll record through the account
\* reference when it executes a computation, and the callback lands later.
EXTENDS Integers, Sequences, FiniteSets, TLC

\* --------------------------------------------------------------- bounds
\* Computations queued in one run.
MaxComps == 3
\* The greatest nonce a poll creator supplies.
MaxNonce == 1
\* Counter values fed to the circuits in CircuitSpec are 0..MaxCount.
MaxCount == 5

\* ------------------------------------------------------ program constants
\* Anchor account discriminator, in bytes.
DISCRIMINATOR_LEN == 8
\* One ciphertext slot, in bytes.
CIPHERTEXT_LEN == 32
\* Voting options (slots of the tally).
NUM_OPTIONS == 3
\* #[max_len(50)] of Poll.question.
MAX_QUESTION_LEN == 50

Programs == {"election", "voting"}
Payers == {"alice", "bob"}
PollIds == {0}
\* The nonces a creator supplies: the least and the greatest.
Nonces == {0, MaxNonce}
\* A question is modelled by its byte length: the longest that fits, and one
\* byte more.
Questions == {MAX_QUESTION_LEN, MAX_QUESTION_LEN + 1}
\* The u8 a voter may encrypt: the three options and one illegal code.
VoteCodes == 0..3
\* The nonce and the x25519 public key a voter encrypts the choice with.
VoteNonces == {0}
VoterKeys == {"x25519"}

\* ------------------------------------------------------------ encryption
\* A plaintext tally is a triple of counters; Junk is what decryption with
\* the wrong nonce (or of bytes that are no ciphertext) yields.
Junk == <<-1, -1, -1>>

\* Enc<Mxe, VoteStats>: three ciphertext slots bound to the nonce they were
\* encrypted under.
FromArcis(stats, nonce) == [pt |-> stats, n |-> nonce]

\* [[0; 32]; 3]: the provisional bytes; an encryption under no nonce.
ZeroBytes == [pt |-> Junk, n |-> -1]

\* to_arcis of Enc<Mxe, VoteStats> with the nonce given as argument.
ToArcis(ct, nonce) == IF ct.n = nonce THEN ct.pt ELSE Junk

\* Enc<Shared, UserVote>: the voter's choice under (public key, vote nonce).
EncryptVote(code, pubkey, nonce) == [pt |-> code, pk |-> pubkey, n |-> nonce]

\* to_arcis of Enc<Shared, UserVote>; -1 is an undecryptable vote.
VoteToArcis(ct, pubkey, nonce) ==
    IF ct.pk = pubkey /\ ct.n = nonce THEN ct.pt ELSE -1

\* --------------------------------------------------------------- circuits
\* init_vote_stats: all three counters zero.
circuits_init_vote_stats == <<0, 0, 0>>

\* vote without its else-if branch.
circuits_vote_no_humane(user_vote, vote_stats) ==
    IF vote_stats = Junk \/ user_vote < 0 THEN Junk
    ELSE IF user_vote = 0 THEN [vote_stats EXCEPT ![1] = @ + 1]
    ELSE [vote_stats EXCEPT ![3] = @ + 1]

\* A vote circuit that increments every counter.
circuits_vote_every_counter(user_vote, vote_stats) ==
    IF vote_stats = Junk \/ user_vote < 0 THEN Junk
    ELSE [i \in 1..3 |-> vote_stats[i] + 1]

\* vote: increment the counter the vote names; any code but 0 and 1 falls
\* into the else branch.  Counters are u64: the bounds stay far below 2^64.
circuits_vote(user_vote, vote_stats) ==
    IF vote_stats = Junk \/ user_vote < 0 THEN Junk
    ELSE IF user_vote = 0 THEN [vote_stats EXCEPT ![1] = @ + 1]
    ELSE IF user_vote = 1 THEN [vote_stats EXCEPT ![2] = @ + 1]
    ELSE [vote_stats EXCEPT ![3] = @ + 1]

Max2(a, b) == IF a >= b THEN a ELSE b

\* The chain of reveal_result numbering the options from one.
RevealChainOneBased(neo_count, humane_count, friend_count) ==
    LET max_count == Max2(Max2(neo_count, humane_count), friend_count)
    IN  IF neo_count = max_count THEN 1
        ELSE IF humane_count = max_count THEN 2
        ELSE 3

\* The chain of reveal_result tested from the last option down.
RevealChainLast(neo_count, humane_count, friend_count) ==
    LET max_count == Max2(Max2(neo_count, humane_count), friend_count)
    IN  IF friend_count = max_count THEN 2
        ELSE IF humane_count = max_count THEN 1
        ELSE 0

\* The if / else-if / else chain of reveal_result over revealed counters.
RevealChain(neo_count, humane_count, friend_count) ==
    LET max_count == Max2(Max2(neo_count, humane_count), friend_count)
    IN  IF neo_count = max_count THEN 0
        ELSE IF humane_count = max_count THEN 1
        ELSE 2

\* reveal_result: the set of values the circuit can return.  On a tally the
\* cluster could not decrypt the counters are arbitrary u64 values, so any
\* branch of the chain may be taken.
circuits_reveal_result(vote_stats) ==
    IF vote_stats = Junk
    THEN {RevealChain(a, b, c) : a \in 0..1, b \in 0..1, c \in 0..1}
    ELSE {RevealChain(vote_stats[1], vote_stats[2], vote_stats[3])}

\* ----------------------------------------------------------------- state
VARIABLES
    program,    \* which of the two programs is deployed
    creators,   \* the payers that create polls in this run
    polls,      \* poll records by address
    comps,      \* computation accounts: queued requests by computation_offset
    events,     \* events emitted, in order
    clock,      \* the last timestamp read from Clock; a second passes between reads
    hist,       \* per poll: what has been applied to it so far
    circ        \* the circuits run on their own (CircuitSpec)

vars == <<program, creators, polls, comps, events, clock, hist, circ>>

\* ------------------------------------------------------------- accounts
\* The program-derived address of seeds [b"poll", authority, id]; distinct
\* seeds give distinct addresses.
PDA(authority, id) == <<authority, id>>
PollKeys == {PDA(a, i) : a \in Payers, i \in PollIds}

\* ctx.bumps.poll_account: the canonical bump of the address.
Bump(authority, id) == 255

\* Byte length of a serialized Poll behind the discriminator:
\* bump, vote_counts, id, authority, nonce, question (4-byte length prefix).
SerializedLen(poll) ==
    1 + CIPHERTEXT_LEN * NUM_OPTIONS + 4 + 32 + 16 + 4 + poll.question

\* Poll::INIT_SPACE, the space `init` allocates behind the discriminator.
INIT_SPACE == SerializedLen([question |-> MAX_QUESTION_LEN])

\* The fields of a Poll account in declaration order, and the bytes each
\* takes in the serialized account (a String is a 4-byte length and its bytes).
PollFields == <<"bump", "vote_counts", "id", "authority", "nonce", "question">>

FieldLen(poll, field) ==
    CASE field = "bump" -> 1
      [] field = "vote_counts" -> CIPHERTEXT_LEN * NUM_OPTIONS
      [] field = "id" -> 4
      [] field = "authority" -> 32
      [] field = "nonce" -> 16
      [] field = "question" -> 4 + poll.question

\* The bytes [FieldStart, FieldEnd) of the i-th field, behind the discriminator.
FieldStart(poll, i) ==
    LET RECURSIVE Before(_)
        Before(j) == IF j = 0 THEN 0 ELSE Before(j - 1) + FieldLen(poll, PollFields[j])
    IN  DISCRIMINATOR_LEN + Before(i - 1)

FieldEnd(poll, i) == FieldStart(poll, i) + FieldLen(poll, PollFields[i])

\* What the cluster reads through Argument::Account(key, offset, length):
\* the vote_counts field when the reference covers exactly its bytes.
AccountRead(key, offset, length) ==
    IF offset = FieldStart(polls[key], 2) /\ offset + length = FieldEnd(polls[key], 2)
    THEN polls[key].vote_counts
    ELSE ZeroBytes

\* The (counts, nonce) pair of a record.
Tally(key) == [vote_counts |-> polls[key].vote_counts, nonce |-> polls[key].nonce]

\* ------------------------------------------------------------ arguments
PlaintextU128(x) == [type |-> "PlaintextU128", value |-> x]
ArcisPubkey(x) == [type |-> "ArcisPubkey", value |-> x]
EncryptedU8(x) == [type |-> "EncryptedU8", value |-> x]
AccountArg(key, offset, length) ==
    [type |-> "Account", value |-> [key |-> key, offset |-> offset, length |-> length]]
CallbackAccount(pubkey, is_writable) == [pubkey |-> pubkey, is_writable |-> is_writable]

ArgTypes(args) == [i \in DOMAIN args |-> args[i].type]

\* The payload of a result: ciphertexts and nonce (Init, Vote) or the winner
\* (Reveal); the fields a kind does not use are zero.
Payload(ciphertexts, nonce, winner) ==
    [ciphertexts |-> ciphertexts, nonce |-> nonce, winner |-> winner]
NoPayload == Payload(ZeroBytes, 0, 0)

\* A computation account.  `poll` names the record the request refers to;
\* snap and read record the (counts, nonce) persisted at submission and at
\* execution and are read by no handler.
Computation(kind, poll, args, callback_accounts, snap) ==
    [kind |-> kind, poll |-> poll, args |-> args,
     callback_accounts |-> callback_accounts, status |-> "queued",
     output |-> NoPayload, snap |-> snap, read |-> snap]

\* Offsets handed out so far; a computation account is closed by its callback.
Queued == {h \in DOMAIN comps : comps[h].status # "free"}
Pending == {h \in DOMAIN comps : comps[h].status \in {"queued", "executed"}}
Free == [status |-> "free"]

\* No Init or Vote computation of the poll is still on its way.
NoWriterPending(key) ==
    \A h \in Pending :
        comps[h].poll = key => comps[h].kind = "reveal_result"

\* queue_computation: the request is stored under its computation_offset,
\* which must name a computation account not used before.
queue_computation(computation_offset, c) ==
    /\ computation_offset \in DOMAIN comps
    /\ comps[computation_offset].status = "free"
    /\ comps' = [comps EXCEPT ![computation_offset] = c]

\* The next unused computation_offset (callers pass fresh offsets).
FreshOffset == Cardinality(Queued) + 1

\* What has been applied to a new poll: nothing.
NewHist == [active |-> FALSE, serial |-> TRUE, cast |-> [v \in VoteCodes |-> 0]]

\* ------------------------------------------------------------- handlers
\* A record stamped without the nonce the creator supplied.
NewPollNonceZero(payer, id, question, nonce) ==
    [bump |-> Bump(payer, id),
     vote_counts |-> ZeroBytes,
     id |-> id,
     authority |-> payer,
     nonce |-> 0,
     question |-> question]

\* A record stamped with an authority that is not the payer.
NewPollOtherAuthority(payer, id, question, nonce) ==
    [bump |-> Bump(payer, id),
     vote_counts |-> ZeroBytes,
     id |-> id,
     authority |-> CHOOSE a \in Payers : a # payer,
     nonce |-> nonce,
     question |-> question]

\* A transaction that fails commits nothing, so a handler is enabled only on
\* the inputs it accepts; what it returns on the others is its *_err operator.
\*
\* create_poll (election) / create_new_poll (voting).  `init` needs a free
\* address; the handler stamps the record and queues the Init computation;
\* on exit the record must fit the allocated space.
NewPoll(payer, id, question, nonce) ==
    [bump |-> Bump(payer, id),
     vote_counts |-> ZeroBytes,
     id |-> id,
     authority |-> payer,
     nonce |-> nonce,
     question |-> question]

\* Create with a record that is written back whatever its length.
create_poll_err_no_fit(payer, id, question, nonce) ==
    IF PDA(payer, id) \in DOMAIN polls THEN "AccountAlreadyInUse" ELSE "Ok"

\* Create without `init` on the record.
create_poll_err_no_init(payer, id, question, nonce) ==
    IF SerializedLen(NewPoll(payer, id, question, nonce)) > INIT_SPACE
    THEN "AccountDidNotSerialize"
    ELSE "Ok"

\* What create_poll returns.
create_poll_err(payer, id, question, nonce) ==
    IF PDA(payer, id) \in DOMAIN polls THEN "AccountAlreadyInUse"
    ELSE IF SerializedLen(NewPoll(payer, id, question, nonce)) > INIT_SPACE
    THEN "AccountDidNotSerialize"
    ELSE "Ok"

create_poll(payer, computation_offset, id, question, nonce) ==
    LET key == PDA(payer, id)
        poll == NewPoll(payer, id, question, nonce)
        computation_args == <<PlaintextU128(nonce)>>
        snap == [vote_counts |-> poll.vote_counts, nonce |-> poll.nonce]
    IN  /\ create_poll_err(payer, id, question, nonce) = "Ok"
        /\ polls' = polls @@ (key :> poll)
        /\ queue_computation(computation_offset,
               Computation("init_vote_stats", key, computation_args,
                           <<CallbackAccount(key, TRUE)>>, snap))
        /\ hist' = hist @@ (key :> NewHist)
        /\ UNCHANGED <<program, creators, events, clock>>

\* A vote that is refused once a winner has been published.
vote_err_after_reveal(payer, poll_id, authority, key) ==
    IF key \notin DOMAIN polls THEN "AccountNotInitialized"
    ELSE IF \E i \in DOMAIN events : events[i].name = "RevealResultEvent"
    THEN "PollRevealed"
    ELSE IF authority # polls[key].authority THEN "ConstraintAddress"
    ELSE IF key # PDA(authority, poll_id) THEN "ConstraintSeeds"
    ELSE "Ok"

\* What vote returns.  The Vote accounts: poll_account must be an initialized
\* Poll, `authority` must be its authority, and the address must derive from
\* (authority, poll_id).
vote_err(payer, poll_id, authority, key) ==
    IF key \notin DOMAIN polls THEN "AccountNotInitialized"
    ELSE IF authority # polls[key].authority THEN "ConstraintAddress"
    ELSE IF key # PDA(authority, poll_id) THEN "ConstraintSeeds"
    ELSE "Ok"

\* A vote handler that stores the voter's nonce in the record.
vote_stores_nonce(payer, computation_offset, poll_id, authority, key, choice, vote_encryption_pubkey, vote_nonce) ==
    /\ vote_err(payer, poll_id, authority, key) = "Ok"
    /\ queue_computation(computation_offset,
           Computation("vote", key,
                       << ArcisPubkey(vote_encryption_pubkey),
                          PlaintextU128(vote_nonce),
                          EncryptedU8(choice),
                          PlaintextU128(polls[key].nonce),
                          AccountArg(key, DISCRIMINATOR_LEN + 1, 32 * 3) >>,
                       <<CallbackAccount(key, TRUE)>>, Tally(key)))
    /\ polls' = [polls EXCEPT ![key].nonce = vote_nonce]
    /\ hist' = [hist EXCEPT ![key].serial =
                   @ /\ hist[key].active /\ NoWriterPending(key)]
    /\ UNCHANGED <<program, creators, events, clock>>

\* The argument list of election's vote, built with ArgBuilder.
election_vote_args(key, choice, vote_encryption_pubkey, vote_nonce) ==
    << ArcisPubkey(vote_encryption_pubkey),
       PlaintextU128(vote_nonce),
       EncryptedU8(choice),
       PlaintextU128(polls[key].nonce),
       AccountArg(key, DISCRIMINATOR_LEN + 1, 32 * 3) >>

\* A vote argument list with the two nonces in each other's place.
voting_vote_args_swapped(key, vote, vote_encryption_pubkey, vote_nonce) ==
    << ArcisPubkey(vote_encryption_pubkey),
       PlaintextU128(polls[key].nonce),
       EncryptedU8(vote),
       PlaintextU128(vote_nonce),
       AccountArg(key, 8 + 1, 32 * 3) >>

\* The argument list of voting's vote, a vec! of Argument.
voting_vote_args(key, vote, vote_encryption_pubkey, vote_nonce) ==
    << ArcisPubkey(vote_encryption_pubkey),
       PlaintextU128(vote_nonce),
       EncryptedU8(vote),
       PlaintextU128(polls[key].nonce),
       AccountArg(key, 8 + 1, 32 * 3) >>

\* vote.  The handler captures the persisted nonce and passes the counts by
\* account reference.
vote(payer, computation_offset, poll_id, authority, key, choice, vote_encryption_pubkey, vote_nonce) ==
    /\ vote_err(payer, poll_id, authority, key) = "Ok"
    /\  LET computation_args ==
                IF program = "election"
                THEN election_vote_args(key, choice, vote_encryption_pubkey, vote_nonce)
                ELSE voting_vote_args(key, choice, vote_encryption_pubkey, vote_nonce)
        IN  /\ queue_computation(computation_offset,
                   Computation("vote", key, computation_args,
                               <<CallbackAccount(key, TRUE)>>, Tally(key)))
            /\ hist' = [hist EXCEPT ![key].serial =
                           @ /\ hist[key].active /\ NoWriterPending(key)]
            /\ UNCHANGED <<program, creators, polls, events, clock>>

\* What reveal_result returns.  The RevealResult accounts: poll_account must
\* be an initialized Poll whose address derives from (payer, id); then the
\* handler requires payer == authority.
reveal_result_err(payer, id, key) ==
    IF key \notin DOMAIN polls THEN "AccountNotInitialized"
    ELSE IF key # PDA(payer, id) THEN "ConstraintSeeds"
    ELSE IF payer # polls[key].authority THEN "InvalidAuthority"
    ELSE "Ok"

\* A reveal argument list whose reference starts at the bump.
election_reveal_result_args_at_bump(key) ==
    << PlaintextU128(polls[key].nonce),
       AccountArg(key, DISCRIMINATOR_LEN, 32 * 3) >>

\* The argument list of election's reveal_result, built with ArgBuilder.
election_reveal_result_args(key) ==
    << PlaintextU128(polls[key].nonce),
       AccountArg(key, DISCRIMINATOR_LEN + 1, 32 * 3) >>

\* The argument list of voting's reveal_result, a vec! of Argument.
voting_reveal_result_args(key) ==
    << PlaintextU128(polls[key].nonce),
       AccountArg(key, 8 + 1, 32 * 3) >>

reveal_result(payer, computation_offset, id, key) ==
    /\ reveal_result_err(payer, id, key) = "Ok"
    /\  LET computation_args ==
                IF program = "election"
                THEN election_reveal_result_args(key)
                ELSE voting_reveal_result_args(key)
        IN  /\ queue_computation(computation_offset,
                   Computation("reveal_result", key, computation_args,
                               << >>, Tally(key)))
            /\ UNCHANGED <<program, creators, polls, events, clock, hist>>

\* -------------------------------------------------------------- cluster
\* The parameter lists of the circuits, as argument types.
InitArgTypes == <<"PlaintextU128">>
VoteArgTypes ==
    <<"ArcisPubkey", "PlaintextU128", "EncryptedU8", "PlaintextU128", "Account">>
RevealArgTypes == <<"PlaintextU128", "Account">>

\* Enc<Mxe, VoteStats> given as (nonce, account reference): the counters the
\* cluster obtains from the record as it is when the computation runs.
ReadStats(nonceArg, accountArg) ==
    ToArcis(AccountRead(accountArg.value.key, accountArg.value.offset,
                        accountArg.value.length),
            nonceArg.value)

\* The vote a Vote request carries, as the cluster decrypts it.
UserVote(c) == VoteToArcis(c.args[3].value, c.args[1].value, c.args[2].value)

\* The nonce the cluster encrypts the output of computation h under: one not
\* used before (creators supply 0..MaxNonce).
OutNonce(h) == MaxNonce + h

\* The payloads the cluster can produce for a queued computation; out_nonce
\* is the nonce it encrypts the output under.
RunCircuit(c, out_nonce) ==
    IF c.kind = "init_vote_stats" /\ ArgTypes(c.args) = InitArgTypes
    THEN {Payload(FromArcis(circuits_init_vote_stats, out_nonce), out_nonce, 0)}
    ELSE IF c.kind = "vote" /\ ArgTypes(c.args) = VoteArgTypes
    THEN {Payload(FromArcis(circuits_vote(UserVote(c), ReadStats(c.args[4], c.args[5])),
                            out_nonce),
                  out_nonce, 0)}
    ELSE IF c.kind = "reveal_result" /\ ArgTypes(c.args) = RevealArgTypes
    THEN {Payload(ZeroBytes, 0, w) :
            w \in circuits_reveal_result(ReadStats(c.args[1], c.args[2]))}
    ELSE {}

\* A cluster that never runs a Vote computation.
execute_no_votes(h, payload) ==
    /\ comps[h].status = "queued"
    /\ comps[h].kind # "vote"
    /\ comps' = [comps EXCEPT ![h].status = "executed",
                              ![h].output = payload,
                              ![h].read = Tally(comps[h].poll)]
    /\ UNCHANGED <<program, creators, polls, events, clock, hist>>

\* The cluster runs a queued computation on the record as it is now.
execute(h, payload) ==
    /\ comps[h].status = "queued"
    /\ comps' = [comps EXCEPT ![h].status = "executed",
                              ![h].output = payload,
                              ![h].read = Tally(comps[h].poll)]
    /\ UNCHANGED <<program, creators, polls, events, clock, hist>>

\* ------------------------------------------------------------ callbacks
\* What the cluster hands to a callback: Success(payload) with an attestation
\* that verifies or not, or Failure, which carries nothing to verify.
ComputationOutputs(kind, sigOk, payload) ==
    [kind |-> kind, sigOk |-> sigOk, payload |-> payload]

\* A VoteEvent that also names an option.
VoteEventWithChoice(timestamp) ==
    [name |-> "VoteEvent", timestamp |-> timestamp, choice |-> 0]

VoteEvent(timestamp) == [name |-> "VoteEvent", timestamp |-> timestamp]
RevealResultEvent(output) == [name |-> "RevealResultEvent", output |-> output]

\* A computation account that stays open after its callback.
ConsumeKeepsOpen(h, result) == comps' = comps

\* The computation account is closed by its callback; `result` keeps what the
\* callback returned and `verified` whether it got its payload from
\* verify_output.
Consume(h, result) ==
    comps' = [comps EXCEPT ![h] = [status |-> "closed", kind |-> comps[h].kind,
                                   result |-> result, verified |-> FALSE]]

\* The callback returns Ok(()) with a payload that verify_output handed out.
ConsumeVerified(h) ==
    comps' = [comps EXCEPT ![h] = [status |-> "closed", kind |-> comps[h].kind,
                                   result |-> "Ok", verified |-> TRUE]]

\* A callback that returns an error commits no write of its own.
CallbackErr(err, h) ==
    /\ Consume(h, err)
    /\ UNCHANGED <<program, creators, polls, events, clock, hist>>

\* output.verify_output(cluster_account, computation_account)
verify_output(output) == output.kind = "Success" /\ output.sigOk

\* An Init callback that stores the counters and not their nonce.
create_poll_callback_counts_only(h, output) ==
    LET key == comps[h].callback_accounts[1].pubkey
    IN  IF output.kind # "Success"
        THEN CallbackErr("AbortedComputation", h)
        ELSE /\ polls' = [polls EXCEPT
                    ![key].vote_counts = output.payload.ciphertexts]
             /\ Consume(h, "Ok")
             /\ hist' = [hist EXCEPT ![key].active = TRUE]
             /\ UNCHANGED <<program, creators, events, clock>>

\* An Init callback that also clears the question.
create_poll_callback_clears_question(h, output) ==
    LET key == comps[h].callback_accounts[1].pubkey
    IN  IF output.kind # "Success"
        THEN CallbackErr("AbortedComputation", h)
        ELSE /\ polls' = [polls EXCEPT
                    ![key].vote_counts = output.payload.ciphertexts,
                    ![key].nonce = output.payload.nonce,
                    ![key].question = 0]
             /\ Consume(h, "Ok")
             /\ hist' = [hist EXCEPT ![key].active = TRUE]
             /\ UNCHANGED <<program, creators, events, clock>>

\* create_poll_callback (election), init_vote_stats_callback (voting),
\* init_vote_counters_callback: match on Success, else AbortedComputation.
create_poll_callback(h, output) ==
    LET key == comps[h].callback_accounts[1].pubkey
    IN  IF output.kind # "Success"
        THEN CallbackErr("AbortedComputation", h)
        ELSE /\ polls' = [polls EXCEPT
                    ![key].vote_counts = output.payload.ciphertexts,
                    ![key].nonce = output.payload.nonce]
             /\ Consume(h, "Ok")
             /\ hist' = [hist EXCEPT ![key].active = TRUE]
             /\ UNCHANGED <<program, creators, events, clock>>

\* A Vote callback that stores the payload before it looks at the result.
vote_callback_store_first(h, output, now) ==
    LET key == comps[h].callback_accounts[1].pubkey
    IN  /\ polls' = [polls EXCEPT
               ![key].vote_counts = comps[h].output.ciphertexts,
               ![key].nonce = comps[h].output.nonce]
        /\ IF ~verify_output(output)
           THEN /\ Consume(h, "VerifyOutputFailed")
                /\ UNCHANGED <<program, creators, events, clock, hist>>
           ELSE /\ clock' = now
                /\ events' = Append(events, VoteEvent(now))
                /\ ConsumeVerified(h)
                /\ hist' = [hist EXCEPT ![key].cast[UserVote(comps[h])] = @ + 1]
                /\ UNCHANGED <<program, creators>>

\* A Vote callback that also resets the nonce of every other poll.
vote_callback_all_polls(h, output, now) ==
    LET key == comps[h].callback_accounts[1].pubkey
    IN  IF ~verify_output(output)
        THEN CallbackErr("VerifyOutputFailed", h)
        ELSE /\ polls' = [k \in DOMAIN polls |->
                    IF k = key
                    THEN [polls[k] EXCEPT !.vote_counts = output.payload.ciphertexts,
                                          !.nonce = output.payload.nonce]
                    ELSE [polls[k] EXCEPT !.nonce = 0]]
             /\ clock' = now
             /\ events' = Append(events, VoteEvent(now))
             /\ ConsumeVerified(h)
             /\ hist' = [hist EXCEPT ![key].cast[UserVote(comps[h])] = @ + 1]
             /\ UNCHANGED <<program, creators>>

\* vote_callback of election: the payload is used only if it verifies.
vote_callback(h, output, now) ==
    LET key == comps[h].callback_accounts[1].pubkey
    IN  IF ~verify_output(output)
        THEN CallbackErr("VerifyOutputFailed", h)
        ELSE /\ polls' = [polls EXCEPT
                    ![key].vote_counts = output.payload.ciphertexts,
                    ![key].nonce = output.payload.nonce]
             /\ clock' = now
             /\ events' = Append(events, VoteEvent(now))
             /\ ConsumeVerified(h)
             /\ hist' = [hist EXCEPT ![key].cast[UserVote(comps[h])] = @ + 1]
             /\ UNCHANGED <<program, creators>>

\* vote_callback of voting: match on Success, else AbortedComputation.
voting_vote_callback(h, output, now) ==
    LET key == comps[h].callback_accounts[1].pubkey
    IN  IF output.kind # "Success"
        THEN CallbackErr("AbortedComputation", h)
        ELSE /\ polls' = [polls EXCEPT
                    ![key].vote_counts = output.payload.ciphertexts,
                    ![key].nonce = output.payload.nonce]
             /\ clock' = now
             /\ events' = Append(events, VoteEvent(now))
             /\ Consume(h, "Ok")
             /\ hist' = [hist EXCEPT ![key].cast[UserVote(comps[h])] = @ + 1]
             /\ UNCHANGED <<program, creators>>

\* A Reveal callback that stores the winner in the record.
reveal_result_callback_stores(h, output) ==
    IF ~verify_output(output)
    THEN CallbackErr("VerifyOutputFailed", h)
    ELSE /\ events' = Append(events, RevealResultEvent(output.payload.winner))
         /\ polls' = [polls EXCEPT ![comps[h].poll].nonce = output.payload.winner]
         /\ ConsumeVerified(h)
         /\ UNCHANGED <<program, creators, clock, hist>>

\* reveal_result_callback of election: no poll account; emits the winner.
reveal_result_callback(h, output) ==
    IF ~verify_output(output)
    THEN CallbackErr("VerifyOutputFailed", h)
    ELSE /\ events' = Append(events, RevealResultEvent(output.payload.winner))
         /\ ConsumeVerified(h)
         /\ UNCHANGED <<program, creators, polls, clock, hist>>

\* reveal_result_callback of voting.
voting_reveal_result_callback(h, output) ==
    IF output.kind # "Success"
    THEN CallbackErr("AbortedComputation", h)
    ELSE /\ events' = Append(events, RevealResultEvent(output.payload.winner))
         /\ Consume(h, "Ok")
         /\ UNCHANGED <<program, creators, polls, clock, hist>>

\* --------------------------------------------------------- specification
CircIdle == [op |-> "idle", stats |-> <<0, 0, 0>>, user_vote |-> 0,
             out |-> <<0, 0, 0>>, winner |-> 0]

Init ==
    /\ program \in Programs
    /\ creators = {"alice"}
    /\ polls = << >>
    /\ comps = [h \in 1..MaxComps |-> Free]
    /\ events = << >>
    /\ clock = 0
    /\ hist = << >>
    /\ circ = CircIdle

\* The result delivered for an executed computation.
Outputs(h) ==
    {ComputationOutputs("Success", sigOk, comps[h].output) :
        sigOk \in IF program = "election" THEN BOOLEAN ELSE {TRUE}}
    \cup {ComputationOutputs("Failure", FALSE, NoPayload)}

Ready(h, kind) == comps[h].status = "executed" /\ comps[h].kind = kind

CreatePoll ==
    \E payer \in creators, id \in PollIds, question \in Questions, nonce \in Nonces :
        /\ create_poll(payer, FreshOffset, id, question, nonce)
        /\ UNCHANGED circ

Vote ==
    \E payer \in Payers, key \in PollKeys, poll_id \in PollIds,
       authority \in Payers, code \in VoteCodes, vote_nonce \in VoteNonces,
       vote_encryption_pubkey \in VoterKeys :
        /\ vote(payer, FreshOffset, poll_id, authority, key,
                EncryptVote(code, vote_encryption_pubkey, vote_nonce),
                vote_encryption_pubkey, vote_nonce)
        /\ UNCHANGED circ

RevealResult ==
    \E payer \in Payers, id \in PollIds, key \in PollKeys :
        /\ reveal_result(payer, FreshOffset, id, key)
        /\ UNCHANGED circ

Execute ==
    \E h \in DOMAIN comps :
        /\ comps[h].status = "queued"
        /\ \E payload \in RunCircuit(comps[h], OutNonce(h)) : execute(h, payload)
        /\ UNCHANGED circ

CreatePollCallback ==
    \E h \in DOMAIN comps :
        /\ Ready(h, "init_vote_stats")
        /\ \E output \in Outputs(h) : create_poll_callback(h, output)
        /\ UNCHANGED circ

VoteCallback ==
    \E h \in DOMAIN comps :
        /\ Ready(h, "vote")
        /\ \E output \in Outputs(h) :
              IF program = "election"
              THEN vote_callback(h, output, clock + 1)
              ELSE voting_vote_callback(h, output, clock + 1)
        /\ UNCHANGED circ

RevealResultCallback ==
    \E h \in DOMAIN comps :
        /\ Ready(h, "reveal_result")
        /\ \E output \in Outputs(h) :
              IF program = "election"
              THEN reveal_result_callback(h, output)
              ELSE voting_reveal_result_callback(h, output)
        /\ UNCHANGED circ

Next ==
    \/ CreatePoll
    \/ Vote
    \/ RevealResult
    \/ Execute
    \/ CreatePollCallback
    \/ VoteCallback
    \/ RevealResultCallback

Spec == Init /\ [][Next]_vars

\* ------------------------------------------------- polls of two authorities
\* Every payer creates polls; creation is the same handler in both programs,
\* and election is the one run here.
PollInit ==
    /\ program = "election"
    /\ creators = Payers
    /\ polls = << >>
    /\ comps = [h \in 1..MaxComps |-> Free]
    /\ events = << >>
    /\ clock = 0
    /\ hist = << >>
    /\ circ = CircIdle

\* Creation and voting; Reveal writes no record and is left to Spec.
PollNext ==
    \/ CreatePoll
    \/ Vote
    \/ Execute
    \/ CreatePollCallback
    \/ VoteCallback

PollSpec == PollInit /\ [][PollNext]_vars

\* ------------------------------------------------- one request at a time
\* A client that waits for the callback of a request before it submits the
\* next, with one more computation account than Spec.
SerialInit ==
    /\ program \in Programs
    /\ creators = {"alice"}
    /\ polls = << >>
    /\ comps = [h \in 1..(MaxComps + 1) |-> Free]
    /\ events = << >>
    /\ clock = 0
    /\ hist = << >>
    /\ circ = CircIdle

SerialCreatePoll == Pending = {} /\ CreatePoll
SerialVote == Pending = {} /\ Vote
SerialRevealResult == Pending = {} /\ RevealResult

SerialNext ==
    \/ SerialCreatePoll
    \/ SerialVote
    \/ SerialRevealResult
    \/ Execute
    \/ CreatePollCallback
    \/ VoteCallback
    \/ RevealResultCallback

SerialSpec == SerialInit /\ [][SerialNext]_vars

\* ------------------------------------------------- two polls, every operation
\* Every payer creates polls and every operation runs, election's handlers;
\* every ballot is for option 0.
IsolationVote ==
    /\ Vote
    /\ \A h \in DOMAIN comps :
          (comps[h].status = "free" /\ comps'[h].status = "queued") =>
              UserVote(comps'[h]) = 0

IsolationNext ==
    \/ CreatePoll
    \/ IsolationVote
    \/ RevealResult
    \/ Execute
    \/ CreatePollCallback
    \/ VoteCallback
    \/ RevealResultCallback

IsolationSpec == PollInit /\ [][IsolationNext]_vars

\* ------------------------------------------------- a cluster that answers
\* One creator, election's handlers, every ballot for option 0; the cluster
\* eventually runs every queued computation and eventually calls back for
\* every computation it has run.
FairInit ==
    /\ program = "election"
    /\ creators = {"alice"}
    /\ polls = << >>
    /\ comps = [h \in 1..MaxComps |-> Free]
    /\ events = << >>
    /\ clock = 0
    /\ hist = << >>
    /\ circ = CircIdle

FairNext ==
    \/ CreatePoll
    \/ IsolationVote
    \/ RevealResult
    \/ Execute
    \/ CreatePollCallback
    \/ VoteCallback
    \/ RevealResultCallback

FairSpec ==
    /\ FairInit
    /\ [][FairNext]_vars
    /\ WF_vars(Execute)
    /\ WF_vars(CreatePollCallback)
    /\ WF_vars(VoteCallback)
    /\ WF_vars(RevealResultCallback)

\* ------------------------------------------------- the circuits on their own
\* The counters and the vote a circuit is run on.
CircuitInputs ==
    {[op |-> "input", stats |-> <<a, b, c>>, user_vote |-> v,
      out |-> <<0, 0, 0>>, winner |-> 0] :
        a \in 0..MaxCount, b \in 0..MaxCount, c \in 0..MaxCount, v \in VoteCodes}

CircuitInit ==
    /\ program = "election"
    /\ creators = {}
    /\ polls = << >>
    /\ comps = [h \in 1..MaxComps |-> Free]
    /\ events = << >>
    /\ clock = 0
    /\ hist = << >>
    /\ circ \in CircuitInputs

RunInitVoteStats ==
    /\ circ.op = "input"
    /\ circ' = [circ EXCEPT !.op = "init_vote_stats",
                            !.out = circuits_init_vote_stats]
    /\ UNCHANGED <<program, creators, polls, comps, events, clock, hist>>

RunVote ==
    /\ circ.op = "input"
    /\ circ' = [circ EXCEPT !.op = "vote",
                            !.out = circuits_vote(circ.user_vote, circ.stats)]
    /\ UNCHANGED <<program, creators, polls, comps, events, clock, hist>>

RunRevealResult ==
    /\ circ.op = "input"
    /\ \E w \in circuits_reveal_result(circ.stats) :
          circ' = [circ EXCEPT !.op = "reveal_result", !.winner = w]
    /\ UNCHANGED <<program, creators, polls, comps, events, clock, hist>>

CircuitNext ==
    \/ RunInitVoteStats
    \/ RunVote
    \/ RunRevealResult

CircuitSpec == CircuitInit /\ [][CircuitNext]_vars

\* ------------------------------------------------- two runs side by side
\* Two runs of one Active poll, given the same operations with the same
\* outcomes at the same clock, each with its own secret votes; `left` and
\* `right` hold each run's counters and the events it has emitted.
Run(stats, evs) == [stats |-> stats, events |-> evs]

\* A Vote callback that puts the vote in its event.
run_vote_callback_with_choice(run, user_vote, now) ==
    Run(circuits_vote(user_vote, run.stats),
        Append(run.events, [name |-> "VoteEvent", timestamp |-> now,
                            choice |-> user_vote]))

\* vote_callback in one run: the counters become the circuit's output and a
\* VoteEvent carries the time read from the clock.
run_vote_callback(run, user_vote, now) ==
    Run(circuits_vote(user_vote, run.stats), Append(run.events, VoteEvent(now)))

\* reveal_result_callback in one run: the winner is emitted, nothing stored.
run_reveal_result_callback(run, winner) ==
    Run(run.stats, Append(run.events, RevealResultEvent(winner)))

PairInit ==
    /\ program = "election"
    /\ creators = {}
    /\ polls = << >>
    /\ comps = [h \in 1..MaxComps |-> Free]
    /\ events = << >>
    /\ clock = 0
    /\ hist = << >>
    /\ circ = [op |-> "pair", n |-> 0,
               left |-> Run(<<0, 0, 0>>, << >>), right |-> Run(<<0, 0, 0>>, << >>)]

\* A Vote whose callback succeeds in both runs; the votes may differ.
PairVote ==
    /\ circ.n < MaxComps + 1
    /\ \E v1 \in VoteCodes, v2 \in VoteCodes :
          circ' = [circ EXCEPT !.n = @ + 1,
                               !.left = run_vote_callback(@, v1, clock + 1),
                               !.right = run_vote_callback(@, v2, clock + 1)]
    /\ clock' = clock + 1
    /\ UNCHANGED <<program, creators, polls, comps, events, hist>>

\* A Vote or Reveal whose callback returns an error in both runs.
PairAbort ==
    /\ circ.n < MaxComps + 1
    /\ circ' = [circ EXCEPT !.n = @ + 1]
    /\ UNCHANGED <<program, creators, polls, comps, events, clock, hist>>

\* A Reveal whose callback succeeds in both runs, with the same winner.
PairReveal ==
    /\ circ.n < MaxComps + 1
    /\ \E w \in circuits_reveal_result(circ.left.stats)
                  \cap circuits_reveal_result(circ.right.stats) :
          circ' = [circ EXCEPT !.n = @ + 1,
                               !.left = run_reveal_result_callback(@, w),
                               !.right = run_reveal_result_callback(@, w)]
    /\ UNCHANGED <<program, creators, polls, comps, events, clock, hist>>

PairNext ==
    \/ PairVote
    \/ PairAbort
    \/ PairReveal

PairSpec == PairInit /\ [][PairNext]_vars

\* =============================================================== properties
\* The votes applied to a poll, per option.
Applied(key) == <<hist[key].cast[0], hist[key].cast[1], hist[key].cast[2]>>

\* C1 (vote conservation): on a poll whose Init callback succeeded and whose
\* Vote computations were each submitted with no other Init or Vote of the
\* poll on its way, once k_i votes for option i (all with a legal code) have
\* been applied, the persisted counts decrypt under the persisted nonce to
\* (k_0, k_1, k_2).
C1_VoteConservation ==
    \A key \in DOMAIN polls :
        (hist[key].active /\ hist[key].serial /\ hist[key].cast[3] = 0)
            => ToArcis(polls[key].vote_counts, polls[key].nonce) = Applied(key)

C1_Witness ==
    \E key \in DOMAIN polls :
        /\ hist[key].active /\ hist[key].serial /\ hist[key].cast[3] = 0
        /\ hist[key].cast[1] = 1
        /\ hist[key].cast[0] + hist[key].cast[2] = 1

\* The lowest index holding the greatest counter.
LowestMaxIndex(stats) ==
    CHOOSE i \in 0..(NUM_OPTIONS - 1) :
        /\ \A j \in 0..(NUM_OPTIONS - 1) : stats[j + 1] <= stats[i + 1]
        /\ \A j \in 0..(NUM_OPTIONS - 1) : j < i => stats[j + 1] < stats[i + 1]

\* C2 (tie-break): on any three counters reveal_result returns the lowest
\* index i with c_i = max(c_0, c_1, c_2); (3,3,1) gives 0, (1,5,5) gives 1,
\* (0,0,0) gives 0.
C2_TieBreak ==
    /\ circ.op = "reveal_result" => circ.winner = LowestMaxIndex(circ.stats)
    /\ (circ.op = "reveal_result" /\ circ.stats = <<3, 3, 1>>) => circ.winner = 0
    /\ (circ.op = "reveal_result" /\ circ.stats = <<1, 5, 5>>) => circ.winner = 1
    /\ (circ.op = "reveal_result" /\ circ.stats = <<0, 0, 0>>) => circ.winner = 0

C2_Witness ==
    circ.op = "reveal_result" /\ circ.stats = <<1, 5, 5>> /\ circ.winner = 1

\* C3 (authority gate), as the specification states it: a Reveal whose payer
\* is not the authority of the poll it names is rejected with
\* InvalidAuthority.
C3_InvalidAuthority ==
    \A payer \in Payers, id \in PollIds :
        \A key \in DOMAIN polls :
            payer # polls[key].authority
                => reveal_result_err(payer, id, key) = "InvalidAuthority"

\* The callback of Vote computation h returns an error in this step.
VoteAborts(h) ==
    /\ comps[h].status = "executed"
    /\ comps[h].kind = "vote"
    /\ comps'[h].status = "closed"
    /\ comps'[h].result # "Ok"

\* C4 (abort leaves state unchanged), as the specification states it: after
\* the callback of a Vote that aborted, failed or did not verify, the poll's
\* (counts, nonce) equal those persisted when the Vote was submitted.
C4_AbortKeepsSubmitted ==
    [][\A h \in 1..MaxComps :
          VoteAborts(h) =>
              /\ polls'[comps[h].poll].vote_counts = comps[h].snap.vote_counts
              /\ polls'[comps[h].poll].nonce = comps[h].snap.nonce]_vars

\* C4, amended: the callback of a Vote that aborted, failed or did not verify
\* changes no poll record and emits no event, so the poll's (counts, nonce)
\* equal those persisted immediately before the callback.
C4_AbortChangesNothing ==
    [][\A h \in 1..MaxComps :
          VoteAborts(h) => polls' = polls /\ events' = events]_vars

C4_Witness ==
    \E h \in 1..MaxComps :
        /\ comps[h].status = "closed"
        /\ comps[h].kind = "vote"
        /\ comps[h].result # "Ok"
        /\ \E key \in DOMAIN polls : hist[key].cast # NewHist.cast

\* C5 (atomic generation replace): in every reachable state the (counts,
\* nonce) pair of a poll is the provisional pair (zero bytes, the creator's
\* nonce) or the ciphertexts and nonce of one Init or Vote result.
C5_AtomicGeneration ==
    \A key \in DOMAIN polls :
        \/ /\ polls[key].vote_counts = ZeroBytes
           /\ polls[key].nonce \in Nonces
        \/ \E h \in 1..MaxComps :
              /\ comps[h].status = "closed"
              /\ comps[h].kind \in {"init_vote_stats", "vote"}
              /\ comps[h].result = "Ok"
              /\ polls[key].vote_counts.n = OutNonce(h)
              /\ polls[key].nonce = OutNonce(h)

C5_Witness ==
    \E key \in DOMAIN polls :
        /\ polls[key].vote_counts # ZeroBytes
        /\ hist[key].cast[0] + hist[key].cast[1] + hist[key].cast[2] = 2

\* C6 (single-winner disclosure): every RevealResultEvent carries one output
\* in {0, 1, 2} and nothing else, and no event carries a counter.
C6_SingleWinnerDisclosure ==
    \A i \in DOMAIN events :
        IF events[i].name = "RevealResultEvent"
        THEN /\ DOMAIN events[i] = {"name", "output"}
             /\ events[i].output \in 0..(NUM_OPTIONS - 1)
        ELSE /\ events[i].name = "VoteEvent"
             /\ DOMAIN events[i] = {"name", "timestamp"}

C6_Witness ==
    \E i \in DOMAIN events :
        /\ events[i].name = "RevealResultEvent"
        /\ events[i].output = 2
        /\ \E key \in DOMAIN polls : hist[key].cast[2] = 1

\* The nonce argument of a Vote or Reveal request.
NonceArg(c) == IF c.kind = "vote" THEN c.args[4].value ELSE c.args[1].value

\* C7 (nonce binding), as the specification states it: in any interleaving,
\* the nonce a Vote or Reveal computation hands to the circuit is the nonce
\* the persisted counts are encrypted under when the cluster reads them.
\* Stated for computations submitted on a poll already Active.
C7_NonceBinding ==
    \A h \in 1..MaxComps :
        (/\ comps[h].status = "executed"
         /\ comps[h].kind \in {"vote", "reveal_result"}
         /\ comps[h].snap.vote_counts # ZeroBytes)
            => NonceArg(comps[h]) = comps[h].read.vote_counts.n

\* C8 (Vote requires Active), as the specification states it: no Vote is
\* queued on a poll that still held the provisional zero bytes when the Vote
\* was submitted.
C8_VoteRequiresActive ==
    \A h \in 1..MaxComps :
        (comps[h].status \in {"queued", "executed"} /\ comps[h].kind = "vote")
            => comps[h].snap.vote_counts # ZeroBytes

\* C9 (Reveal requires Active), as the specification states it: no Reveal is
\* queued on a poll that still held the provisional zero bytes when the
\* Reveal was submitted.
C9_RevealRequiresActive ==
    \A h \in 1..MaxComps :
        (comps[h].status \in {"queued", "executed"}
         /\ comps[h].kind = "reveal_result")
            => comps[h].snap.vote_counts # ZeroBytes

\* The callback of Init computation h succeeds in this step.
InitLands(h) ==
    /\ comps[h].status = "executed"
    /\ comps[h].kind = "init_vote_stats"
    /\ comps'[h].status = "closed"
    /\ comps'[h].result = "Ok"

\* C10 (Create): a Create that succeeds persists a record with authority =
\* payer, the given id, a question that fits, nonce = the supplied nonce and
\* zero bytes for the counts, and queues exactly one Init computation, which
\* carries that nonce and calls back on the record; the Init callback
\* replaces (counts, nonce) with the cluster's pair, which decrypts to
\* (0, 0, 0).
C10_Create ==
    [][/\ \A key \in PollKeys :
             (key \notin DOMAIN polls /\ key \in DOMAIN polls') =>
                 /\ key = PDA(polls'[key].authority, polls'[key].id)
                 /\ polls'[key].question <= MAX_QUESTION_LEN
                 /\ polls'[key].vote_counts = ZeroBytes
                 /\ \E h \in 1..MaxComps :
                       /\ comps[h].status = "free"
                       /\ comps'[h].status = "queued"
                       /\ comps'[h].kind = "init_vote_stats"
                       /\ comps'[h].args = <<PlaintextU128(polls'[key].nonce)>>
                       /\ comps'[h].callback_accounts = <<CallbackAccount(key, TRUE)>>
                       /\ \A g \in (1..MaxComps) \ {h} : comps'[g] = comps[g]
       /\ \A h \in 1..MaxComps :
             InitLands(h) =>
                 /\ polls'[comps[h].poll].vote_counts = comps[h].output.ciphertexts
                 /\ polls'[comps[h].poll].nonce = comps[h].output.nonce
                 /\ ToArcis(polls'[comps[h].poll].vote_counts,
                            polls'[comps[h].poll].nonce) = circuits_init_vote_stats
      ]_vars

C10_Witness ==
    \E key \in DOMAIN polls :
        /\ hist[key].active
        /\ polls[key].nonce \notin Nonces
        /\ ToArcis(polls[key].vote_counts, polls[key].nonce) = <<0, 0, 0>>
        /\ polls[key].question = MAX_QUESTION_LEN

\* The callback of computation h runs in this step.
CallbackStep(h) ==
    /\ comps[h].status = "executed"
    /\ comps'[h].status = "closed"

\* Computation h is queued in this step.
Submitted(h) ==
    /\ comps[h].status = "free"
    /\ comps'[h].status = "queued"

\* C11 (abort of Init or Reveal), as the specification states it: the
\* callback of an Init or Reveal computation that aborted returns
\* AbortedComputation (election's Reveal callback: the error of
\* verify_output), changes no poll record, emits no event and queues no
\* computation; after an aborted Init the record holds the provisional zero
\* counts and the creator's nonce.
C11_AbortInitReveal ==
    [][\A h \in 1..MaxComps :
          (/\ CallbackStep(h)
           /\ comps[h].kind \in {"init_vote_stats", "reveal_result"}
           /\ comps'[h].result # "Ok") =>
              /\ (comps[h].kind = "init_vote_stats" \/ program = "voting")
                    => comps'[h].result = "AbortedComputation"
              /\ polls' = polls
              /\ events' = events
              /\ \A g \in (1..MaxComps) \ {h} : comps'[g] = comps[g]
              /\ comps[h].kind = "init_vote_stats" =>
                    /\ polls'[comps[h].poll].vote_counts = ZeroBytes
                    /\ polls'[comps[h].poll].nonce = comps[h].snap.nonce]_vars

\* The callback of Vote computation h succeeds in this step.
VoteLands(h) ==
    /\ CallbackStep(h)
    /\ comps[h].kind = "vote"
    /\ comps'[h].result = "Ok"

NumVoteEvents(evs) ==
    Cardinality({i \in DOMAIN evs : evs[i].name = "VoteEvent"})

NumAppliedVotes(cs) ==
    Cardinality({h \in 1..MaxComps :
        cs[h].status = "closed" /\ cs[h].kind = "vote" /\ cs[h].result = "Ok"})

\* C12 (vote notification): a vote callback that succeeds appends exactly one
\* VoteEvent, whose only field is the timestamp just read from the clock;
\* every other step (Create, Vote, Reveal, execution, any other callback, an
\* aborted vote callback) appends no VoteEvent; so there are as many
\* VoteEvents as successfully applied vote results.
C12_VoteNotification ==
    [][/\ IF \E h \in 1..MaxComps : VoteLands(h)
          THEN events' = Append(events, [name |-> "VoteEvent", timestamp |-> clock'])
          ELSE NumVoteEvents(events') = NumVoteEvents(events)
       /\ NumVoteEvents(events') = NumAppliedVotes(comps')]_vars

C12_Witness ==
    /\ NumVoteEvents(events) = 2
    /\ NumAppliedVotes(comps) = 2
    /\ \A i \in DOMAIN events : events[i].name = "VoteEvent"

\* C13 (Reveal is read-only): the step that submits a Reveal and the step of
\* a Reveal callback, successful or not, change no poll record, and a Reveal
\* is queued with no callback account.
C13_RevealReadOnly ==
    [][\A h \in 1..MaxComps :
          /\ (Submitted(h) /\ comps'[h].kind = "reveal_result") =>
                polls' = polls /\ comps'[h].callback_accounts = << >>
          /\ (CallbackStep(h) /\ comps[h].kind = "reveal_result") =>
                polls' = polls]_vars

C13_Witness ==
    /\ \E h \in 1..MaxComps :
          /\ comps[h].status = "closed"
          /\ comps[h].kind = "reveal_result"
          /\ comps[h].result = "Ok"
    /\ \E key \in DOMAIN polls :
          hist[key].active /\ hist[key].cast # NewHist.cast

\* C14 (callback-only mutation): once a poll exists, a step changes its
\* (counts, nonce) only if it is the callback of an Init or Vote computation
\* whose callback account is that poll; the steps that submit a Vote or a
\* Reveal change no poll record.
C14_CallbackOnlyMutation ==
    [][/\ \A key \in DOMAIN polls :
             (\/ polls'[key].vote_counts # polls[key].vote_counts
              \/ polls'[key].nonce # polls[key].nonce) =>
                 \E h \in 1..MaxComps :
                     /\ CallbackStep(h)
                     /\ comps[h].kind \in {"init_vote_stats", "vote"}
                     /\ comps[h].callback_accounts[1].pubkey = key
       /\ \A h \in 1..MaxComps :
             (Submitted(h) /\ comps'[h].kind \in {"vote", "reveal_result"})
                 => polls' = polls]_vars

C14_Witness ==
    \E key \in DOMAIN polls :
        /\ hist[key].active
        /\ hist[key].cast # NewHist.cast
        /\ \E h \in 1..MaxComps :
              comps[h].status = "queued" /\ comps[h].kind = "vote"
        /\ polls[key].nonce # 0

C16_SignedResults ==
    program = "election" =>
        \A h \in 1..MaxComps :
            (comps[h].status = "closed" /\ comps[h].result = "Ok")
                => comps[h].verified

\* C17 (invalid vote code), as the specification states it: no Vote whose
\* option code is outside {0, 1, 2} is ever queued, and none is ever counted.
C17_InvalidVoteCode ==
    /\ \A h \in 1..MaxComps :
          (comps[h].status \in {"queued", "executed"} /\ comps[h].kind = "vote")
              => UserVote(comps[h]) \in 0..(NUM_OPTIONS - 1)
    /\ \A key \in DOMAIN polls : hist[key].cast[3] = 0

\* C18 (question too long), as the specification states it: Create with a
\* question longer than 50 is rejected with InvalidInput.
C18_InvalidInput ==
    \A payer \in Payers, id \in PollIds, question \in Questions, nonce \in Nonces :
        question > MAX_QUESTION_LEN
            => create_poll_err(payer, id, question, nonce) = "InvalidInput"

\* C18, amended: Create with a question longer than 50 bytes fails, on a free
\* address with AccountDidNotSerialize (the record does not fit the space
\* allocated for it when it is written back), so no record with such a
\* question is ever persisted and no Init computation refers to one.
C18_QuestionTooLong ==
    /\ \A payer \in Payers, id \in PollIds, question \in Questions, nonce \in Nonces :
          question > MAX_QUESTION_LEN =>
              /\ create_poll_err(payer, id, question, nonce) # "Ok"
              /\ PDA(payer, id) \notin DOMAIN polls =>
                    create_poll_err(payer, id, question, nonce) = "AccountDidNotSerialize"
    /\ \A key \in DOMAIN polls :
          /\ polls[key].question <= MAX_QUESTION_LEN
          /\ SerializedLen(polls[key]) <= INIT_SPACE
    /\ \A h \in 1..MaxComps :
          (comps[h].status \in {"queued", "executed"}) =>
              polls[comps[h].poll].question <= MAX_QUESTION_LEN

C18_Witness ==
    \E key \in DOMAIN polls :
        /\ polls[key].question = MAX_QUESTION_LEN
        /\ SerializedLen(polls[key]) = INIT_SPACE
        /\ \E h \in 1..MaxComps :
              /\ comps[h].status = "queued"
              /\ comps[h].kind = "init_vote_stats"
              /\ comps[h].poll = key

\* C19 (poll identity is immutable): no step removes a poll record or changes
\* its authority, id, bump or question.
C19_IdentityImmutable ==
    [][\A key \in DOMAIN polls :
          /\ key \in DOMAIN polls'
          /\ polls'[key].authority = polls[key].authority
          /\ polls'[key].id = polls[key].id
          /\ polls'[key].bump = polls[key].bump
          /\ polls'[key].question = polls[key].question]_vars

C19_Witness ==
    /\ \E i \in DOMAIN events : events[i].name = "VoteEvent"
    /\ \E i \in DOMAIN events : events[i].name = "RevealResultEvent"
    /\ \E key \in DOMAIN polls :
          /\ hist[key].active
          /\ polls[key].authority = key[1]
          /\ polls[key].question = MAX_QUESTION_LEN

\* Some poll has this authority and this id.
HasPoll(authority, id) ==
    \E key \in DOMAIN polls :
        polls[key].authority = authority /\ polls[key].id = id

\* C20 (poll uniqueness per authority): a Create for an (authority, id) that
\* has a poll fails with the address in use, so no Init is queued for an
\* existing poll and a step that creates a poll leaves the others as they
\* are; a Create for an (authority, id) that has none succeeds whatever polls
\* other authorities hold under that id; and the records of two polls differ
\* in (authority, id).
C20_PollUniqueness ==
    [][/\ \A payer \in Payers, id \in PollIds, nonce \in Nonces :
             IF HasPoll(payer, id)
             THEN create_poll_err(payer, id, MAX_QUESTION_LEN, nonce)
                      = "AccountAlreadyInUse"
             ELSE create_poll_err(payer, id, MAX_QUESTION_LEN, nonce) = "Ok"
       /\ \A h \in 1..MaxComps :
             (Submitted(h) /\ comps'[h].kind = "init_vote_stats") =>
                 /\ comps'[h].poll \notin DOMAIN polls
                 /\ \A key \in DOMAIN polls : polls'[key] = polls[key]
       /\ \A k1 \in DOMAIN polls, k2 \in DOMAIN polls :
             k1 # k2 => \/ polls[k1].authority # polls[k2].authority
                        \/ polls[k1].id # polls[k2].id]_vars

C20_Witness ==
    /\ \A payer \in Payers : HasPoll(payer, 0)
    /\ \E key \in DOMAIN polls :
          hist[key].active /\ polls[key].vote_counts # ZeroBytes
    /\ \E key \in DOMAIN polls : polls[key].vote_counts = ZeroBytes

\* C25 (argument order): the argument list a handler queues follows the
\* parameter order of its circuit.  Vote: the voter's x25519 key, the vote
\* nonce, the encrypted choice, the tally nonce persisted at submission, the
\* reference to the poll's account.  Reveal: the tally nonce, the account
\* reference.  Create: the supplied nonce.  The vec! lists of voting and the
\* ArgBuilder lists of election are the same lists.
C25_ArgumentOrder ==
    /\ \A h \in Pending :
          LET c == comps[h]
          IN  /\ c.kind = "init_vote_stats" =>
                    /\ ArgTypes(c.args) = InitArgTypes
                    /\ c.args[1].value = c.snap.nonce
              /\ c.kind = "vote" =>
                    /\ ArgTypes(c.args) = VoteArgTypes
                    /\ c.args[1].value \in VoterKeys
                    /\ c.args[2].value \in VoteNonces
                    /\ \E code \in VoteCodes :
                          c.args[3].value =
                              EncryptVote(code, c.args[1].value, c.args[2].value)
                    /\ c.args[4].value = c.snap.nonce
                    /\ c.args[5].value.key = c.poll
              /\ c.kind = "reveal_result" =>
                    /\ ArgTypes(c.args) = RevealArgTypes
                    /\ c.args[1].value = c.snap.nonce
                    /\ c.args[2].value.key = c.poll
    /\ \A key \in DOMAIN polls :
          /\ election_reveal_result_args(key) = voting_reveal_result_args(key)
          /\ \A code \in VoteCodes, pk \in VoterKeys, vote_nonce \in VoteNonces :
                election_vote_args(key, EncryptVote(code, pk, vote_nonce), pk, vote_nonce)
                    = voting_vote_args(key, EncryptVote(code, pk, vote_nonce), pk, vote_nonce)

\* A Vote and a Reveal of voting are queued on a poll whose nonce differs from
\* the vote nonce.
C25_Witness ==
    /\ program = "voting"
    /\ \E h \in Pending, g \in Pending :
          /\ comps[h].kind = "vote" /\ comps[g].kind = "reveal_result"
          /\ comps[h].args[4].value # comps[h].args[2].value

\* The account reference of a Vote or Reveal request.
AccountRef(c) == c.args[Len(c.args)].value

\* C26 (account reference): the reference a Vote or Reveal request passes
\* starts at byte 9 (8 discriminator bytes and the bump) and is 96 bytes long;
\* these are exactly the bytes of the counts field, and none of the bytes of
\* bump, id, authority, nonce or question.
C26_AccountReference ==
    \A h \in Pending :
        comps[h].kind \in {"vote", "reveal_result"} =>
            LET ref == AccountRef(comps[h])
                poll == polls[ref.key]
            IN  /\ ref.offset = 9 /\ ref.length = 96
                /\ PollFields[2] = "vote_counts"
                /\ ref.offset = FieldStart(poll, 2)
                /\ ref.offset + ref.length = FieldEnd(poll, 2)
                /\ \A i \in DOMAIN PollFields \ {2} :
                      \/ FieldEnd(poll, i) <= ref.offset
                      \/ ref.offset + ref.length <= FieldStart(poll, i)

\* A Vote and a Reveal of election are queued on a poll with the longest
\* question.
C26_Witness ==
    /\ program = "election"
    /\ \E h \in Pending, g \in Pending :
          /\ comps[h].kind = "vote" /\ comps[g].kind = "reveal_result"
          /\ polls[AccountRef(comps[g]).key].question = MAX_QUESTION_LEN
          /\ FieldEnd(polls[AccountRef(comps[g]).key], 6)
                 = DISCRIMINATOR_LEN + INIT_SPACE

\* C27 (one vote, one increment): for every tally (c_0, c_1, c_2) and every
\* vote v in {0, 1, 2}, the vote circuit returns the tally with c_v one
\* greater and the other two counters as they were.
C27_OneVoteOneIncrement ==
    (circ.op = "vote" /\ circ.user_vote \in 0..2) =>
        \A i \in 1..3 :
            circ.out[i] = circ.stats[i] + (IF i = circ.user_vote + 1 THEN 1 ELSE 0)

\* The circuit has added a vote for the last option to a tally of unequal
\* counters.
C27_Witness ==
    /\ circ.op = "vote" /\ circ.user_vote = 2
    /\ circ.stats = <<MaxCount, 0, 2>>
    /\ circ.out = <<MaxCount, 0, 3>>

\* A winner has been published.
Revealed == \E i \in DOMAIN events : events[i].name = "RevealResultEvent"

\* The callback of Reveal computation h succeeds in this step.
RevealLands(h) ==
    /\ CallbackStep(h)
    /\ comps[h].kind = "reveal_result"
    /\ comps'[h].result = "Ok"

\* C22 (voting after reveal): once a Reveal has succeeded and its event is
\* out, a Vote on the poll is accepted from every payer as before; the
\* callback of such a Vote replaces the persisted (counts, nonce) with the
\* pair the cluster returned; and a Reveal after it publishes the winner of
\* the tally then persisted.  Requests are submitted one at a time.
C22_VotingAfterReveal ==
    [][Revealed =>
          /\ \A key \in DOMAIN polls, payer \in Payers :
                vote_err(payer, polls[key].id, polls[key].authority, key) = "Ok"
          /\ \A h \in DOMAIN comps :
                VoteLands(h) =>
                    /\ polls'[comps[h].poll].vote_counts = comps[h].output.ciphertexts
                    /\ polls'[comps[h].poll].nonce = comps[h].output.nonce
                    /\ polls'[comps[h].poll].nonce # polls[comps[h].poll].nonce
          /\ \A h \in DOMAIN comps :
                LET stats == ToArcis(polls[comps[h].poll].vote_counts,
                                     polls[comps[h].poll].nonce)
                IN  (RevealLands(h) /\ stats # Junk) =>
                        events' = Append(events,
                                         RevealResultEvent(LowestMaxIndex(stats)))]_vars

\* A Reveal published option 0 for the empty tally, then a vote for option 1
\* was applied, then a second Reveal published option 1.
C22_Witness ==
    /\ Len(events) = 3
    /\ events[1] = RevealResultEvent(0)
    /\ events[2].name = "VoteEvent"
    /\ events[3] = RevealResultEvent(1)
    /\ \E key \in DOMAIN polls :
          /\ Applied(key) = <<0, 1, 0>>
          /\ ToArcis(polls[key].vote_counts, polls[key].nonce) = <<0, 1, 0>>

\* The (counts, nonce) pair decrypted under its own nonce.
Decrypt(pair) == ToArcis(pair.vote_counts, pair.nonce)

Sum3(stats) == stats[1] + stats[2] + stats[3]

\* C23 (no per-voter uniqueness, no authority gate), as the specification
\* states it: every payer, the authority or not, is accepted by vote on an
\* existing poll whoever voted before, and each vote callback that succeeds
\* raises the total of the tally by one, so that k successful votes raise it
\* by k.
C23_UnrestrictedVoting ==
    [][/\ \A key \in DOMAIN polls, payer \in Payers :
             vote_err(payer, polls[key].id, polls[key].authority, key) = "Ok"
       /\ \A h \in DOMAIN comps :
             (VoteLands(h) /\ Decrypt(Tally(comps[h].poll)) # Junk) =>
                 Sum3(ToArcis(polls'[comps[h].poll].vote_counts,
                              polls'[comps[h].poll].nonce))
                     = Sum3(Decrypt(Tally(comps[h].poll))) + 1]_vars

\* C28 (no lost update under concurrent votes), as the specification states
\* it: when the callback of a Vote succeeds after another result was applied
\* to the poll since that Vote was submitted on its Active tally, the tally
\* it leaves is the tally persisted just before it with this vote added.
C28_NoLostUpdate ==
    [][\A h \in DOMAIN comps :
          (/\ VoteLands(h)
           /\ comps[h].snap.vote_counts # ZeroBytes
           /\ Decrypt(comps[h].snap) # Junk
           /\ Tally(comps[h].poll) # comps[h].snap
           /\ Decrypt(Tally(comps[h].poll)) # Junk
           /\ UserVote(comps[h]) \in 0..2)
              => ToArcis(polls'[comps[h].poll].vote_counts,
                         polls'[comps[h].poll].nonce)
                    = circuits_vote(UserVote(comps[h]),
                                    Decrypt(Tally(comps[h].poll)))]_vars

\* C29 (Init never erases votes), as the specification states it: the Init
\* callback of a poll is applied only while the record holds the provisional
\* pair stamped by Create and no Vote result has been applied to it.
C29_InitNeverErasesVotes ==
    [][\A h \in DOMAIN comps :
          InitLands(h) =>
              /\ Tally(comps[h].poll) = comps[h].snap
              /\ \A v \in VoteCodes : hist[comps[h].poll].cast[v] = 0]_vars

\* C30 (Reveal reports a real generation), as the specification states it:
\* the winner a Reveal submitted on an Active poll publishes is the
\* lowest-index maximum of a tally persisted between its submission and its
\* callback: the one at submission, the one the cluster read, or the one
\* persisted when the callback lands.
C30_RevealRealGeneration ==
    [][\A h \in DOMAIN comps :
          (/\ RevealLands(h)
           /\ comps[h].snap.vote_counts # ZeroBytes
           /\ Decrypt(comps[h].snap) # Junk
           /\ Decrypt(comps[h].read) # Junk
           /\ Decrypt(Tally(comps[h].poll)) # Junk)
              => \E g \in {comps[h].snap, comps[h].read, Tally(comps[h].poll)} :
                    events' = Append(events,
                                     RevealResultEvent(LowestMaxIndex(Decrypt(g))))]_vars

\* The poll a step of computation h is about: the poll of the request that
\* is queued or called back in this step.
StepPoll(h) == IF comps[h].status = "free" THEN comps'[h].poll ELSE comps[h].poll

\* C31 (poll isolation): the callback of a Vote writes only the record its
\* request named, both as callback account and as account reference; and a
\* Create, Vote or Reveal submission, an execution or a callback for one poll
\* leaves every field of every other poll as it was.
C31_PollIsolation ==
    [][/\ \A h \in DOMAIN comps :
             (Submitted(h) \/ CallbackStep(h)) =>
                 \A key \in DOMAIN polls \ {StepPoll(h)} : polls'[key] = polls[key]
       /\ \A h \in DOMAIN comps :
             VoteLands(h) =>
                 /\ comps[h].callback_accounts = <<CallbackAccount(comps[h].poll, TRUE)>>
                 /\ AccountRef(comps[h]).key = comps[h].poll
                 /\ polls'[comps[h].poll] # polls[comps[h].poll]
       /\ (\A h \in DOMAIN comps : ~Submitted(h) /\ ~CallbackStep(h)) =>
             polls' = polls]_vars

\* Both payers hold a poll; a vote was applied to alice's, and bob's is Active
\* and holds the empty tally.
C31_Witness ==
    /\ PDA("alice", 0) \in DOMAIN polls /\ PDA("bob", 0) \in DOMAIN polls
    /\ Applied(PDA("alice", 0)) = <<1, 0, 0>>
    /\ hist[PDA("bob", 0)].active
    /\ Applied(PDA("bob", 0)) = <<0, 0, 0>>
    /\ Decrypt(Tally(PDA("bob", 0))) = <<0, 0, 0>>

\* The payer that created the poll at this address: the address derives from
\* the creating payer and the id.
Creator(key) == key[1]

\* C32 (the creator can always reveal): at every point of a poll's life its
\* authority is the payer that created it, and reveal_result called by that
\* payer with the poll's id is accepted, so never fails with InvalidAuthority,
\* however many Reveals came before; each Reveal that is accepted queues one
\* reveal computation for that poll and nothing else.
C32_CreatorCanReveal ==
    [][/\ \A key \in DOMAIN polls :
             /\ polls[key].authority = Creator(key)
             /\ reveal_result_err(Creator(key), polls[key].id, key) = "Ok"
       /\ \A h \in DOMAIN comps :
             (Submitted(h) /\ comps'[h].kind = "reveal_result") =>
                 /\ comps'[h].poll \in DOMAIN polls
                 /\ \A g \in DOMAIN comps \ {h} : comps'[g] = comps[g]]_vars

\* The creator has revealed twice: once while the poll was provisional and
\* once after its Init result was applied; both Reveals were published.
C32_Witness ==
    \E h \in DOMAIN comps, g \in DOMAIN comps :
        /\ h < g
        /\ comps[h].status = "closed" /\ comps[h].kind = "reveal_result"
        /\ comps[h].result = "Ok"
        /\ comps[g].status = "executed" /\ comps[g].kind = "reveal_result"
        /\ comps[g].snap.vote_counts # ZeroBytes
        /\ Len(events) = 1
        /\ \E key \in DOMAIN polls : hist[key].active

\* Computation h of this kind is on its way.
OnItsWay(h, kind) ==
    comps[h].status \in {"queued", "executed"} /\ comps[h].kind = kind

\* The callback of computation h of this kind has returned.
Answered(h, kind) == comps[h].status = "closed" /\ comps[h].kind = kind

\* C33 (progress under a fair cluster, none without it): when the cluster
\* eventually runs and calls back every queued computation, every Vote that
\* was submitted is eventually closed by its callback, which applied it or
\* returned an error, and every poll created eventually is Active or has had
\* its Init callback return an error.  The core has no timeout: a computation
\* on its way is changed by no step but its own execution and its own
\* callback, and a step that is not a callback changes no tally.
C33_Progress ==
    /\ \A h \in 1..MaxComps :
          /\ OnItsWay(h, "vote") ~> Answered(h, "vote")
          /\ OnItsWay(h, "init_vote_stats") ~>
                 (/\ Answered(h, "init_vote_stats")
                  /\ comps[h].result = "Ok" =>
                         \E key \in DOMAIN polls : hist[key].active)
    /\ [][/\ \A h \in 1..MaxComps :
                (comps[h].status \in {"queued", "executed"} /\ comps'[h] # comps[h]) =>
                    \/ /\ comps[h].status = "queued"
                       /\ comps'[h] = [comps[h] EXCEPT
                                           !.status = "executed",
                                           !.output = comps'[h].output,
                                           !.read = comps'[h].read]
                    \/ CallbackStep(h)
          /\ (\A h \in 1..MaxComps : ~CallbackStep(h)) =>
                \A key \in DOMAIN polls : Tally(key)' = Tally(key)]_vars

\* One Vote was applied and another was answered with an error, on an Active
\* poll.
C33_Witness ==
    /\ \E h \in 1..MaxComps, g \in 1..MaxComps :
          /\ Answered(h, "vote") /\ comps[h].result = "Ok"
          /\ Answered(g, "vote") /\ comps[g].result # "Ok"
    /\ \E key \in DOMAIN polls : hist[key].active

\* C34 (public outputs do not depend on the votes beyond the winner): two
\* runs given the same operations with the same outcomes at the same clock,
\* whose secret votes differ and whose Reveals name the same winner, have
\* emitted the same sequence of events: the same VoteEvent timestamps and
\* the same RevealResultEvent indices.
C34_PublicOutputs == circ.left.events = circ.right.events

\* The runs hold different counters after different votes, and both have
\* emitted two VoteEvents and then the winner 0.
C34_Witness ==
    /\ circ.left.stats = <<2, 0, 0>>
    /\ circ.right.stats = <<1, 1, 0>>
    /\ circ.left.events = <<VoteEvent(1), VoteEvent(2), RevealResultEvent(0)>>
====
